---- MODULE Spec2Model ----
(***************************************************************************)
(* A model of pyWikiRacer: WikiRacer.find_path and its helpers             *)
(* (src/wikiracing.py) over the WikiPage table (src/models.py).            *)
(*                                                                         *)
(* A title is a sequence of one-character strings, so that the per-        *)
(* character tests of _validate_page and _get_links are computed as the    *)
(* code computes them.  The remote API is the function web (page title ->  *)
(* the page's outbound links, in the API's order) plus a nondeterministic  *)
(* choice, at every request, between the truthful answer and a fault.      *)
(***************************************************************************)
EXTENDS Integers, Sequences, FiniteSets, TLC

VARIABLES
    web,               \* the corpus: title -> outbound link titles, API order
    store,             \* the wikipage table: sequence of rows, insertion order
    pc,                \* position of the running call
    arg,               \* argument of a direct call of a helper
    start,             \* find_path argument
    finish,            \* find_path argument
    start_page_links,  \* local of find_path (line 147)
    path,              \* local of find_path (line 152)
    path_found,        \* local of find_path (line 153)
    pos,               \* 1-based position of the for loop in start_page_links
    page_db_lookup,    \* local of find_path (line 158): <<>> (None) or <<row>>
    page_links,        \* local of find_path (line 172)
    result,            \* what the call returned or raised
    fault,             \* history: the provider fault met by the current call
    ops,               \* history: operations the current call has performed
    prev,              \* history: the list the preceding call returned, if it had
                       \* the same arguments and all its requests were answered
    other,             \* a second find_path execution on the same table
    level_two_children,\* WikiPage.level_two_children: row id -> list of row ids
    child_call         \* history: the last add_child call, <<parent, page>>

\* What the sequential find_path model leaves alone.
aside == <<other, level_two_children, child_call>>

vars == <<web, store, pc, arg, start, finish, start_page_links, path, path_found,
          pos, page_db_lookup, page_links, result, fault, ops, prev, aside>>

----------------------------------------------------------------------------
(* Bounds of the model. *)

\* Stand-in for the per-page limit (200 in the source): only its comparison
\* with the length of a page's link list matters.
MaxLinksPerPage == 2

----------------------------------------------------------------------------
(* Program constants. *)

LINKS_PER_PAGE == MaxLinksPerPage

TITLE_RED_FLAGS == {"/", ":"}

----------------------------------------------------------------------------
(* Titles. *)

Ta == <<"a">>
Tb == <<"b">>
Tc == <<"c">>
Tech == <<"a", ":", "b">>      \* a namespaced ("technical") title
Seps == <<":", "/">>           \* made of separator characters only
Empty == <<>>                  \* the empty string

Titles == {Ta, Tb, Tc, Tech, Seps, Empty}

Min(x, y) == IF x <= y THEN x ELSE y

Range(s) == {s[i] : i \in 1..Len(s)}

SeqsUpTo(S, n) == UNION {[1..k -> S] : k \in 0..n}

----------------------------------------------------------------------------
(* The corpus and the remote API (external: only its answers are modelled). *)

\* A page of the corpus may have one link more than the limit.
MaxOutLinks == LINKS_PER_PAGE + 1

\* The corpora the model draws from.  Ta is the hub page: any list of links
\* to Tb, Tc and the technical title, repeats included.  Tb does not exist
\* (no links), links to itself or links to Tc; Tc does not exist or links to
\* itself; the pages with a separator in their title link to Tc; no page
\* has the empty title.
Corpora ==
    {[t \in Titles |->
        CASE t = Ta -> la
          [] t = Tb -> lb
          [] t = Tc -> lc
          [] t = Empty -> <<>>
          [] OTHER -> <<Tc>>] :
        la \in SeqsUpTo({Tb, Tc, Tech}, MaxOutLinks),
        lb \in {<<>>, <<Tb>>, <<Tc>>},
        lc \in {<<>>, <<Tc>>}}

\* The arguments find_path is called with.
Starts == Titles
Finishes == {Tb, Tc, Seps, Empty}

\* The order in which the API lists pages.
TitleOrder == <<Ta, Tb, Tc, Tech, Seps, Empty>>

\* What a request can meet: "ok" is the API's truthful answer; the others
\* are faults of the remote source.
FaultKinds == {"unreachable", "malformed_body", "malformed_entry"}

Kinds == {"ok"} \cup FaultKinds

\* The body of the answer to action=query&prop=links&pllimit=LINKS_PER_PAGE.
\* A page entry carries a "links" field only when the page has links: a
\* missing page and a page without links are answered with an entry that
\* has none.  "malformed_entry" is a body whose page entry lost its "links"
\* field; "malformed_body" is a body without "query"; "unreachable" is no
\* body at all.
LinksResponse(w, page, kind) ==
    CASE kind = "unreachable" ->
            [status |-> "error", query |-> FALSE, haslinks |-> FALSE, links |-> <<>>]
      [] kind = "malformed_body" ->
            [status |-> "json", query |-> FALSE, haslinks |-> FALSE, links |-> <<>>]
      [] kind = "malformed_entry" ->
            [status |-> "json", query |-> TRUE, haslinks |-> FALSE, links |-> <<>>]
      [] OTHER ->
            [status |-> "json", query |-> TRUE, haslinks |-> w[page] # <<>>,
             links |-> SubSeq(w[page], 1, Min(Len(w[page]), LINKS_PER_PAGE))]

\* A page entry can lose its "links" field only if it had one.
Possible(w, page, kind) == kind = "malformed_entry" => w[page] # <<>>

\* The pages that link to page, in the API's order.
LinkingPages(w, page) ==
    SelectSeq(TitleOrder, LAMBDA p : page \in Range(w[p]))

\* The body of the answer to action=query&list=backlinks&bllimit=LINKS_PER_PAGE.
BacklinksResponse(w, page, kind) ==
    CASE kind = "unreachable" ->
            [status |-> "error", query |-> FALSE, backlinks |-> <<>>]
      [] kind = "malformed_body" ->
            [status |-> "json", query |-> FALSE, backlinks |-> <<>>]
      [] OTHER ->
            [status |-> "json", query |-> TRUE,
             backlinks |-> SubSeq(LinkingPages(w, page), 1,
                                  Min(Len(LinkingPages(w, page)), LINKS_PER_PAGE))]

----------------------------------------------------------------------------
(* The helpers of WikiRacer, as functions of the API's answer. *)

\* What a Python call does: return a value or raise.
Return(v) == [raised |-> FALSE, exc |-> "", val |-> v]
Raise(e) == [raised |-> TRUE, exc |-> e, val |-> <<>>]

\* all([char not in TITLE_RED_FLAGS for char in entry['title']])
NoRedFlag(title) == \A i \in 1..Len(title) : title[i] \notin TITLE_RED_FLAGS

\* _get_links: session.get(...).json() raises when the source is unreachable,
\* response['query']['pages'] raises KeyError outside the try, entry['links']
\* raises the KeyError that the except clause turns into [].
GetLinks(resp) ==
    IF resp.status = "error" THEN Raise("RequestException")
    ELSE IF ~resp.query THEN Raise("KeyError")
    ELSE IF ~resp.haslinks THEN Return(<<>>)
    ELSE Return(SelectSeq(resp.links, NoRedFlag))

\* _get_backlinks
GetBacklinks(resp) ==
    IF resp.status = "error" THEN Raise("RequestException")
    ELSE IF ~resp.query THEN Raise("KeyError")
    ELSE Return(resp.backlinks)

\* Mutant: not any(...), the looser rule "the title contains a separator".
ValidTitle_Any(title) == ~(\E i \in 1..Len(title) : title[i] \in TITLE_RED_FLAGS)

\* Mutant: the test of _get_links' filter negated, in place of the validator's.
ValidTitle_Slip(title) == ~(\A i \in 1..Len(title) : title[i] \notin TITLE_RED_FLAGS)

\* valid_title = not all([char in TITLE_RED_FLAGS for char in title])
ValidTitle(title) == ~(\A i \in 1..Len(title) : title[i] \in TITLE_RED_FLAGS)

\* Mutant: the length of the fetched list is not tested.
ValidatePage_AnyLength(title, resp) ==
    LET page_links_ == GetLinks(resp)
    IN  IF page_links_.raised THEN page_links_
        ELSE IF ~ValidTitle(title)
             THEN Raise("InvalidPageException")
             ELSE Return(page_links_.val)

\* _validate_page: the links are fetched before anything is decided.
ValidatePage(title, resp) ==
    LET page_links_ == GetLinks(resp)
    IN  IF page_links_.raised THEN page_links_
        ELSE IF ~ValidTitle(title) \/ Len(page_links_.val) = 0
             THEN Raise("InvalidPageException")
             ELSE Return(page_links_.val)

\* InvalidPageException.message, as the parts of the f-string
\* f"Can't parse wikipedia page {self.page_title or 'this term'}."
Message(page_title) ==
    <<  <<"Can't parse wikipedia page ">>,
        IF page_title # <<>> THEN page_title ELSE <<"this term">>,
        <<".">>  >>

\* list.insert(i, x), i a Python index.
ListInsert(l, i, x) ==
    SubSeq(l, 1, Min(i, Len(l))) \o <<x>> \o SubSeq(l, Min(i, Len(l)) + 1, Len(l))

\* _page_leads_to_term: the flag it returns and the path it leaves.
LeadsToTerm(links, term) == term \in Range(links)

\* Mutant: path.append(page_title) in place of path.insert(1, page_title).
PageLeadsToTerm_Append(page_title, links, term, p) ==
    [path_found |-> LeadsToTerm(links, term),
     path |-> IF LeadsToTerm(links, term) THEN Append(p, page_title) ELSE p]

PageLeadsToTerm(page_title, links, term, p) ==
    [path_found |-> LeadsToTerm(links, term),
     path |-> IF LeadsToTerm(links, term) THEN ListInsert(p, 1, page_title) ELSE p]

\* Mutant: the query matches nothing.
Matching_None(st, title) == {}

\* session.query(WikiPage).filter_by(title=link): the rows that match.
\* .first() takes one of them; no ORDER BY says which.
Matching(st, title) == {i \in 1..Len(st) : st[i].title = title}

\* WikiPage(title=..., links=..., backlinks=...) once added and committed:
\* the id is the table's autoincrement key.
NewRow(st, title, links, backlinks) ==
    [id |-> Len(st) + 1, title |-> title, links |-> links, backlinks |-> backlinks]

----------------------------------------------------------------------------
(* What a find_path call gives back. *)

NoResult == [type |-> "none", exc |-> "", val |-> <<>>]
ListResult(l) == [type |-> "list", exc |-> "", val |-> l]
StrResult(m) == [type |-> "str", exc |-> "", val |-> m]
Escaped(e) == [type |-> "exc", exc |-> e, val |-> <<>>]

NoOps == [lookups |-> 0, validations |-> 0, backlinks |-> 0, inserts |-> 0]

\* The WikiPage objects add_child is called with.
MaxPages == 3

PageIds == 1..MaxPages

\* The pages add_child is called on.
Parents == {1, 2}

\* The second execution before it is called.
Idle ==
    [pc |-> "idle", start |-> Empty, finish |-> Empty, start_page_links |-> <<>>,
     path |-> <<>>, path_found |-> FALSE, pos |-> 0, page_links |-> <<>>,
     page_db_lookup |-> <<>>, result |-> NoResult]

----------------------------------------------------------------------------
(* The state machine. *)

\* No call has been made yet: the table is empty, no page has a child.
Constructed ==
    /\ store = <<>>
    /\ pc = "idle"
    /\ arg = Empty
    /\ start = Empty
    /\ finish = Empty
    /\ start_page_links = <<>>
    /\ path = <<>>
    /\ path_found = FALSE
    /\ pos = 0
    /\ page_db_lookup = <<>>
    /\ page_links = <<>>
    /\ result = NoResult
    /\ fault = "none"
    /\ ops = NoOps
    /\ prev = NoResult
    /\ other = Idle
    /\ level_two_children = [p \in Parents |-> <<>>]
    /\ child_call = <<>>

Init == web \in Corpora /\ Constructed

\* The history a request leaves: the fault it met, if any.
Met(kind) == fault' = IF kind = "ok" THEN fault ELSE kind

\* find_path(s, f) is called: sequentially, so only when no call is running.
Call(s, f) ==
    /\ pc \in {"idle", "done"}
    /\ pc' = "validate_start"
    /\ start' = s
    /\ finish' = f
    /\ prev' = IF /\ pc = "done" /\ s = start /\ f = finish
                     /\ result.type = "list" /\ fault = "none"
               THEN result ELSE NoResult
    /\ start_page_links' = <<>>
    /\ path' = <<>>
    /\ path_found' = FALSE
    /\ pos' = 0
    /\ page_db_lookup' = <<>>
    /\ page_links' = <<>>
    /\ result' = NoResult
    /\ fault' = "none"
    /\ ops' = NoOps
    /\ UNCHANGED <<aside, web, arg, store>>

\* The call ends, by a return or by an exception that escapes: its locals
\* are gone.
Ends(r) ==
    /\ pc' = "done"
    /\ result' = r
    /\ start_page_links' = <<>>
    /\ path' = <<>>
    /\ path_found' = FALSE
    /\ pos' = 0
    /\ page_db_lookup' = <<>>
    /\ page_links' = <<>>

\* line 147: start_page, start_page_links = self._validate_page(start)
ValidateStart(kind) ==
    /\ pc = "validate_start"
    /\ Possible(web, start, kind)
    /\ LET v == ValidatePage(start, LinksResponse(web, start, kind))
        IN  /\ Met(kind)
            /\ IF v.raised
               THEN /\ Ends(IF v.exc = "InvalidPageException"
                            THEN StrResult(Message(start))
                            ELSE Escaped(v.exc))
               ELSE /\ pc' = "validate_finish"
                    /\ start_page_links' = v.val
                    /\ UNCHANGED <<result, path, path_found, pos,
                                   page_db_lookup, page_links>>
    /\ UNCHANGED <<aside, web, arg, store, start, finish, ops, prev>>

\* lines 148-153: final_page = self._validate_page(finish); path; path_found
ValidateFinish(kind) ==
    /\ pc = "validate_finish"
    /\ Possible(web, finish, kind)
    /\ LET v == ValidatePage(finish, LinksResponse(web, finish, kind))
        IN  /\ Met(kind)
            /\ IF v.raised
               THEN /\ Ends(IF v.exc = "InvalidPageException"
                            THEN StrResult(Message(finish))
                            ELSE Escaped(v.exc))
               ELSE /\ pc' = "for"
                    /\ path' = <<start, finish>>
                    /\ path_found' = FALSE
                    /\ UNCHANGED <<result, start_page_links, pos,
                                   page_db_lookup, page_links>>
    /\ UNCHANGED <<aside, web, arg, store, start, finish, ops, prev>>

\* Mutant: the loop does not move on to the next link.
ForLookup_Stay ==
    /\ pc = "for"
    /\ pos < Len(start_page_links)
    /\ pos' = IF pos = 0 THEN 1 ELSE pos
    /\ ops' = [ops EXCEPT !.lookups = @ + 1]
    /\ page_db_lookup' = <<>>
    /\ pc' = "validate_link"
    /\ UNCHANGED <<aside, web, arg, store, start, finish, start_page_links, path,
                   path_found, page_links, result, fault, prev>>

\* lines 156-160: the for loop takes the next link, or is exhausted;
\* page_db_lookup = session.query(WikiPage).filter_by(title=link).first()
ForLookup ==
    /\ pc = "for"
    /\ IF pos < Len(start_page_links)
       THEN LET link == start_page_links[pos + 1]
            IN  /\ pos' = pos + 1
                /\ ops' = [ops EXCEPT !.lookups = @ + 1]
                /\ IF Matching(store, link) = {}
                   THEN /\ page_db_lookup' = <<>>
                        /\ pc' = "validate_link"
                   ELSE /\ \E i \in Matching(store, link) :
                                page_db_lookup' = <<store[i]>>
                        /\ pc' = "cached"
       ELSE /\ pc' = "return"
            /\ UNCHANGED <<pos, ops, page_db_lookup>>
    /\ UNCHANGED <<aside, web, arg, store, start, finish, start_page_links, path,
                   path_found, page_links, result, fault, prev>>

\* Mutant: a candidate found in the table is validated all the same.
Cached_Revalidate ==
    /\ pc = "cached"
    /\ pc' = "validate_link"
    /\ UNCHANGED <<aside, web, arg, store, start, finish, start_page_links, pos,
                   page_db_lookup, page_links, result, fault, ops, prev,
                   path, path_found>>

\* Mutant: the decision on a row is taken on its backlinks.
Cached_Backlinks ==
    /\ pc = "cached"
    /\ LET r == PageLeadsToTerm(start_page_links[pos],
                                page_db_lookup[1].backlinks, finish, path)
       IN  /\ path_found' = r.path_found
           /\ path' = r.path
           /\ pc' = IF r.path_found THEN "return" ELSE "for"
    /\ UNCHANGED <<aside, web, arg, store, start, finish, start_page_links, pos,
                   page_db_lookup, page_links, result, fault, ops, prev>>

\* lines 161-169: the row's links decide
Cached ==
    /\ pc = "cached"
    /\ LET r == PageLeadsToTerm(start_page_links[pos], page_db_lookup[1].links,
                                finish, path)
       IN  /\ path_found' = r.path_found
           /\ path' = r.path
           /\ pc' = IF r.path_found THEN "return" ELSE "for"
    /\ UNCHANGED <<aside, web, arg, store, start, finish, start_page_links, pos,
                   page_db_lookup, page_links, result, fault, ops, prev>>

\* Mutant: the exception of a candidate's validation is not caught.
ValidateLink_Abort(kind) ==
    /\ pc = "validate_link"
    /\ Possible(web, start_page_links[pos], kind)
    /\ LET v == ValidatePage(start_page_links[pos],
                              LinksResponse(web, start_page_links[pos], kind))
        IN  /\ Met(kind)
            /\ ops' = [ops EXCEPT !.validations = @ + 1]
            /\ IF v.raised
               THEN Ends(Escaped(v.exc))
               ELSE /\ pc' = "create"
                    /\ page_links' = v.val
                    /\ UNCHANGED <<result, start_page_links, path,
                                   path_found, pos, page_db_lookup>>
    /\ UNCHANGED <<aside, web, arg, store, start, finish, prev>>

\* lines 171-174: current_page, page_links = self._validate_page(link);
\* InvalidPageException: continue
ValidateLink(kind) ==
    /\ pc = "validate_link"
    /\ Possible(web, start_page_links[pos], kind)
    /\ LET v == ValidatePage(start_page_links[pos],
                              LinksResponse(web, start_page_links[pos], kind))
        IN  /\ Met(kind)
            /\ ops' = [ops EXCEPT !.validations = @ + 1]
            /\ IF v.raised /\ v.exc = "InvalidPageException"
               THEN /\ pc' = "for"
                    /\ UNCHANGED <<page_links, result, start_page_links, path,
                                   path_found, pos, page_db_lookup>>
               ELSE IF v.raised
               THEN Ends(Escaped(v.exc))
               ELSE /\ pc' = "create"
                    /\ page_links' = v.val
                    /\ UNCHANGED <<result, start_page_links, path,
                                   path_found, pos, page_db_lookup>>
    /\ UNCHANGED <<aside, web, arg, store, start, finish, prev>>

\* Mutant: the row is added to the session, the commit is left out: the
\* table other sessions read does not get it.
CreateLinkObj_NoCommit(kind) ==
    /\ pc = "create"
    /\ kind # "malformed_entry"
    /\ LET b == GetBacklinks(BacklinksResponse(web, start_page_links[pos], kind))
        IN  /\ Met(kind)
            /\ IF b.raised
               THEN /\ Ends(Escaped(b.exc))
                    /\ ops' = [ops EXCEPT !.backlinks = @ + 1]
                    /\ UNCHANGED store
               ELSE /\ UNCHANGED store
                    /\ ops' = [ops EXCEPT !.backlinks = @ + 1, !.inserts = @ + 1]
                    /\ pc' = "fresh"
                    /\ UNCHANGED <<result, start_page_links, path,
                                   path_found, pos, page_db_lookup, page_links>>
    /\ UNCHANGED <<aside, web, arg, start, finish, prev>>

\* Mutant: the new row takes the place of the table's last row.
CreateLinkObj_Replace(kind) ==
    /\ pc = "create"
    /\ kind # "malformed_entry"
    /\ LET b == GetBacklinks(BacklinksResponse(web, start_page_links[pos], kind))
           row == NewRow(store, start_page_links[pos], page_links, b.val)
        IN  /\ Met(kind)
            /\ IF b.raised
               THEN /\ Ends(Escaped(b.exc))
                    /\ ops' = [ops EXCEPT !.backlinks = @ + 1]
                    /\ UNCHANGED store
               ELSE /\ store' = IF store = <<>> THEN <<row>>
                                ELSE [store EXCEPT ![Len(store)] = row]
                    /\ ops' = [ops EXCEPT !.backlinks = @ + 1, !.inserts = @ + 1]
                    /\ pc' = "fresh"
                    /\ UNCHANGED <<result, start_page_links, path,
                                   path_found, pos, page_db_lookup, page_links>>
    /\ UNCHANGED <<aside, web, arg, start, finish, prev>>

\* line 175, lines 114-121: the backlinks are fetched, the row is added and
\* committed
CreateLinkObj(kind) ==
    /\ pc = "create"
    /\ kind # "malformed_entry"
    /\ LET b == GetBacklinks(BacklinksResponse(web, start_page_links[pos], kind))
        IN  /\ Met(kind)
            /\ IF b.raised
               THEN /\ Ends(Escaped(b.exc))
                    /\ ops' = [ops EXCEPT !.backlinks = @ + 1]
                    /\ UNCHANGED store
               ELSE /\ store' = Append(store, NewRow(store, start_page_links[pos],
                                                     page_links, b.val))
                    /\ ops' = [ops EXCEPT !.backlinks = @ + 1, !.inserts = @ + 1]
                    /\ pc' = "fresh"
                    /\ UNCHANGED <<result, start_page_links, path,
                                   path_found, pos, page_db_lookup, page_links>>
    /\ UNCHANGED <<aside, web, arg, start, finish, prev>>

\* Mutant: no break after the candidate was found to lead to finish.
Fresh_NoBreak ==
    /\ pc = "fresh"
    /\ LET r == PageLeadsToTerm(start_page_links[pos], page_links, finish, path)
       IN  /\ path_found' = (path_found \/ r.path_found)
           /\ path' = r.path
           /\ pc' = "for"
    /\ UNCHANGED <<aside, web, arg, store, start, finish, start_page_links, pos,
                   page_db_lookup, page_links, result, fault, ops, prev>>

\* lines 176-183: the fetched links decide
Fresh ==
    /\ pc = "fresh"
    /\ LET r == PageLeadsToTerm(start_page_links[pos], page_links, finish, path)
       IN  /\ path_found' = r.path_found
           /\ path' = r.path
           /\ pc' = IF r.path_found THEN "return" ELSE "for"
    /\ UNCHANGED <<aside, web, arg, store, start, finish, start_page_links, pos,
                   page_db_lookup, page_links, result, fault, ops, prev>>

\* Mutant: return path, whether found or not.
ReturnPath_Always ==
    /\ pc = "return"
    /\ Ends(ListResult(path))
    /\ UNCHANGED <<aside, web, arg, store, start, finish, fault, ops, prev>>

\* line 185: return path if path_found else []
ReturnPath ==
    /\ pc = "return"
    /\ Ends(ListResult(IF path_found THEN path ELSE <<>>))
    /\ UNCHANGED <<aside, web, arg, store, start, finish, fault, ops, prev>>

\* The steps of a running call, the provider answering with one of kinds.
Step(kinds) ==
    \/ \E kind \in kinds : ValidateStart(kind)
    \/ \E kind \in kinds : ValidateFinish(kind)
    \/ ForLookup
    \/ Cached
    \/ \E kind \in kinds : ValidateLink(kind)
    \/ \E kind \in kinds : CreateLinkObj(kind)
    \/ Fresh
    \/ ReturnPath

Next ==
    \/ \E s \in Starts, f \in Finishes : Call(s, f)
    \/ Step(Kinds)

\* Any request may meet a fault.
Spec == Init /\ [][Next]_vars

\* A call that has begun is carried through: the code runs to its end.
FairSpec == Spec /\ WF_vars(Step(Kinds))

ReliableNext ==
    \/ \E s \in Starts, f \in Finishes : Call(s, f)
    \/ Step({"ok"})

\* The provider answers every request truthfully.
ReliableSpec == Init /\ [][ReliableNext]_vars

----------------------------------------------------------------------------
(* Direct calls of the helpers, as the tests make them. *)

\* racer._get_links(t)
GetLinksCall(t, kind) ==
    /\ pc \in {"idle", "got_links", "validated"}
    /\ Possible(web, t, kind)
    /\ arg' = t
    /\ fault' = IF kind = "ok" THEN "none" ELSE kind
    /\ LET r == GetLinks(LinksResponse(web, t, kind))
       IN  result' = IF r.raised THEN Escaped(r.exc) ELSE ListResult(r.val)
    /\ pc' = "got_links"
    /\ page_links' = <<>>
    /\ UNCHANGED <<aside, web, store, start, finish, start_page_links, path,
                   path_found, pos, page_db_lookup, ops, prev>>

\* racer._validate_page(t); page_links is its local (line 46)
ValidatePageCall(t, kind) ==
    /\ pc \in {"idle", "got_links", "validated"}
    /\ Possible(web, t, kind)
    /\ arg' = t
    /\ fault' = IF kind = "ok" THEN "none" ELSE kind
    /\ LET r == GetLinks(LinksResponse(web, t, kind))
           v == ValidatePage(t, LinksResponse(web, t, kind))
       IN  /\ page_links' = r.val
           /\ result' = IF v.raised THEN Escaped(v.exc) ELSE ListResult(v.val)
    /\ pc' = "validated"
    /\ UNCHANGED <<aside, web, store, start, finish, start_page_links, path,
                   path_found, pos, page_db_lookup, ops, prev>>

HelperNext ==
    \/ \E t \in Titles, kind \in Kinds : GetLinksCall(t, kind)
    \/ \E t \in Titles, kind \in Kinds : ValidatePageCall(t, kind)

HelperSpec == Init /\ [][HelperNext]_vars

----------------------------------------------------------------------------
(* Two find_path executions on one table, without serialization: the first *)
(* is the one above, the second has its locals in other. Each numbered     *)
(* line of find_path is a step; the steps of the two interleave.           *)

\* What the second execution leaves alone, the table apart.
first == <<pc, arg, start, finish, start_page_links, path, path_found, pos,
           page_db_lookup, page_links, result, fault, ops, prev,
           level_two_children, child_call>>

\* line 144: the second find_path(s, f) is called
OtherCall(s, f) ==
    /\ other.pc \in {"idle", "done"}
    /\ other' = [Idle EXCEPT !.pc = "validate_start", !.start = s, !.finish = f]
    /\ UNCHANGED <<web, store, first>>

OtherEnds(r) ==
    other' = [Idle EXCEPT !.pc = "done", !.start = other.start,
                          !.finish = other.finish, !.result = r]

\* line 147
OtherValidateStart ==
    /\ other.pc = "validate_start"
    /\ LET v == ValidatePage(other.start, LinksResponse(web, other.start, "ok"))
       IN  IF v.raised
           THEN OtherEnds(StrResult(Message(other.start)))
           ELSE other' = [other EXCEPT !.pc = "validate_finish",
                                       !.start_page_links = v.val]
    /\ UNCHANGED <<web, store, first>>

\* lines 148-153
OtherValidateFinish ==
    /\ other.pc = "validate_finish"
    /\ LET v == ValidatePage(other.finish, LinksResponse(web, other.finish, "ok"))
       IN  IF v.raised
           THEN OtherEnds(StrResult(Message(other.finish)))
           ELSE other' = [other EXCEPT !.pc = "for",
                                       !.path = <<other.start, other.finish>>,
                                       !.path_found = FALSE]
    /\ UNCHANGED <<web, store, first>>

\* lines 156-160
OtherForLookup ==
    /\ other.pc = "for"
    /\ IF other.pos < Len(other.start_page_links)
       THEN LET link == other.start_page_links[other.pos + 1]
            IN  IF Matching(store, link) = {}
                THEN other' = [other EXCEPT !.pos = @ + 1,
                                            !.page_db_lookup = <<>>,
                                            !.pc = "validate_link"]
                ELSE \E i \in Matching(store, link) :
                        other' = [other EXCEPT !.pos = @ + 1,
                                               !.page_db_lookup = <<store[i]>>,
                                               !.pc = "cached"]
       ELSE other' = [other EXCEPT !.pc = "return"]
    /\ UNCHANGED <<web, store, first>>

\* lines 161-169
OtherCached ==
    /\ other.pc = "cached"
    /\ LET r == PageLeadsToTerm(other.start_page_links[other.pos],
                                other.page_db_lookup[1].links,
                                other.finish, other.path)
       IN  other' = [other EXCEPT !.path_found = r.path_found,
                                  !.path = r.path,
                                  !.pc = IF r.path_found THEN "return" ELSE "for"]
    /\ UNCHANGED <<web, store, first>>

\* lines 171-174
OtherValidateLink ==
    /\ other.pc = "validate_link"
    /\ LET link == other.start_page_links[other.pos]
           v == ValidatePage(link, LinksResponse(web, link, "ok"))
       IN  IF v.raised
           THEN other' = [other EXCEPT !.pc = "for"]
           ELSE other' = [other EXCEPT !.pc = "create", !.page_links = v.val]
    /\ UNCHANGED <<web, store, first>>

\* line 175, lines 114-121
OtherCreateLinkObj ==
    /\ other.pc = "create"
    /\ LET link == other.start_page_links[other.pos]
           b == GetBacklinks(BacklinksResponse(web, link, "ok"))
       IN  store' = Append(store, NewRow(store, link, other.page_links, b.val))
    /\ other' = [other EXCEPT !.pc = "fresh"]
    /\ UNCHANGED <<web, first>>

\* lines 176-183
OtherFresh ==
    /\ other.pc = "fresh"
    /\ LET r == PageLeadsToTerm(other.start_page_links[other.pos],
                                other.page_links, other.finish, other.path)
       IN  other' = [other EXCEPT !.path_found = r.path_found,
                                  !.path = r.path,
                                  !.pc = IF r.path_found THEN "return" ELSE "for"]
    /\ UNCHANGED <<web, store, first>>

\* line 185
OtherReturnPath ==
    /\ other.pc = "return"
    /\ OtherEnds(ListResult(IF other.path_found THEN other.path ELSE <<>>))
    /\ UNCHANGED <<web, store, first>>

OtherStep ==
    \/ OtherValidateStart
    \/ OtherValidateFinish
    \/ OtherForLookup
    \/ OtherCached
    \/ OtherValidateLink
    \/ OtherCreateLinkObj
    \/ OtherFresh
    \/ OtherReturnPath

\* The arguments of the interleaved calls.
SharedStarts == {Ta, Tb}

SharedFinishes == {Tc}

SharedNext ==
    \/ \E s \in SharedStarts, f \in SharedFinishes : Call(s, f)
    \/ Step({"ok"})
    \/ \E s \in SharedStarts, f \in SharedFinishes : OtherCall(s, f)
    \/ OtherStep

SharedSpec == Init /\ [][SharedNext]_vars

----------------------------------------------------------------------------
(* WikiPage.add_child, called on pages in one session. *)

\* Mutant: the page is appended whether it is a child already or not.
AddChildTo_Append(children, page) == Append(children, page)

\* models.py lines 29-30, on the parent's level_two_children
AddChildTo(children, page) ==
    IF page \notin Range(children) THEN Append(children, page) ELSE children

\* parent.add_child(page)
AddChild(parent, page) ==
    /\ pc = "idle"
    /\ level_two_children' =
          [level_two_children EXCEPT ![parent] = AddChildTo(@, page)]
    /\ child_call' = <<parent, page>>
    /\ UNCHANGED <<web, store, pc, arg, start, finish, start_page_links, path,
                   path_found, pos, page_db_lookup, page_links, result, fault,
                   ops, prev, other>>

ChildInit == web = [t \in Titles |-> <<>>] /\ Constructed

ChildNext == \E parent \in Parents, page \in PageIds : AddChild(parent, page)

ChildSpec == ChildInit /\ [][ChildNext]_vars

TypeOK ==
    /\ web \in Corpora
    /\ pc \in {"idle", "validate_start", "validate_finish", "for", "cached",
               "validate_link", "create", "fresh", "return", "done",
               "got_links", "validated"}
    /\ arg \in Titles
    /\ start \in Titles
    /\ finish \in Titles
    /\ path_found \in BOOLEAN
    /\ pos \in 0..LINKS_PER_PAGE
    /\ fault \in FaultKinds \cup {"none"}
    /\ result.type \in {"none", "list", "str", "exc"}

----------------------------------------------------------------------------
(* The vocabulary of the properties, stated on the corpus and not through  *)
(* the operators that model the code.                                      *)

Separators == {"/", ":"}

OnlySeparators(t) == \A i \in 1..Len(t) : t[i] \in Separators

HasSeparator(t) == \E i \in 1..Len(t) : t[i] \in Separators

\* The link list the provider returns for page t: the first LINKS_PER_PAGE
\* outbound links, those with a separator in their title left out.
Reported(t) ==
    SelectSeq(SubSeq(web[t], 1, Min(Len(web[t]), LINKS_PER_PAGE)),
              LAMBDA l : ~HasSeparator(l))

\* t passes validation.
Passes(t) == ~OnlySeparators(t) /\ Reported(t) # <<>>

\* The positions, in s's link list, of the titles whose link set has f.
Leading(s, f) ==
    {i \in 1..Len(Reported(s)) : f \in Range(Reported(Reported(s)[i]))}

Least(S) == CHOOSE i \in S : \A j \in S : i <= j

\* A find_path call has ended and every request it made was answered
\* truthfully.
Answered == pc = "done" /\ fault = "none"

----------------------------------------------------------------------------
(* C1: when start and finish pass validation and some title of start's     *)
(* link list has finish in its link set, find_path returns                 *)
(* [start, c, finish] with c the first such title in the provider's order. *)
C1_FirstLeadingLink ==
    (Answered /\ Passes(start) /\ Passes(finish) /\ Leading(start, finish) # {})
        => result = ListResult(<<start,
                                 Reported(start)[Least(Leading(start, finish))],
                                 finish>>)

\* An earlier candidate did not displace the one that leads to finish.
C1_Witness ==
    /\ Answered /\ Passes(start) /\ Passes(finish)
    /\ Leading(start, finish) # {}
    /\ Least(Leading(start, finish)) > 1
    /\ result.type = "list" /\ Len(result.val) = 3

\* t is invalid in the words of C2.
Invalid(t) == OnlySeparators(t) \/ web[t] = <<>>


(* C2: when start or finish is invalid (only separator characters, or a    *)
(* page without outbound links), find_path ends with the message, a value  *)
(* that is not a list, whichever argument is the invalid one.              *)
C2_InvalidOutcome ==
    (Answered /\ (Invalid(start) \/ Invalid(finish)))
        => /\ result.type = "str"
           /\ result.val = Message(IF Passes(start) THEN finish ELSE start)

\* The finish argument alone is invalid, and by its characters.
C2_Witness ==
    /\ Answered /\ Passes(start) /\ OnlySeparators(finish) /\ web[finish] # <<>>
    /\ result.type = "str"

(* C3: when start and finish pass validation and no title of start's link  *)
(* list has finish in its link set, find_path returns the empty list and   *)
(* no exception escapes, also when candidates fail validation.             *)
C3_NotFound ==
    (Answered /\ Passes(start) /\ Passes(finish) /\ Leading(start, finish) = {})
        => result = ListResult(<<>>)

\* Every candidate failed validation.
C3_Witness ==
    /\ Answered /\ Passes(start) /\ Passes(finish)
    /\ \A i \in 1..Len(Reported(start)) : ~Passes(Reported(start)[i])
    /\ result = ListResult(<<>>)

\* The running or ended call repeats one that returned a path.
Retried == prev.type = "list" /\ Len(prev.val) = 3

NoRepeatedTitle ==
    \A i, j \in 1..Len(store) : store[i].title = store[j].title => i = j


(* C4: a second find_path call with the same arguments, made after the     *)
(* first left the intermediate page's row in the table, inserts no row     *)
(* whose title the table already holds and returns the same path.          *)
C4_IdempotentCaching ==
    Retried => /\ NoRepeatedTitle
               /\ Answered => result = prev

\* The second call has ended, with the intermediate's row in the table.
C4_Witness ==
    /\ Retried /\ Answered /\ result = prev
    /\ \E i \in 1..Len(store) : store[i].title = prev.val[2]
    /\ Len(store) = 2

(* C5: a provider fault met while a page's links are fetched is reported   *)
(* as a condition of its own: it never becomes an empty link list, hence   *)
(* never the message of an invalid page, a skipped candidate or a list.    *)
C5_FaultIsDistinct ==
    (pc = "done" /\ fault # "none") => result.type = "exc"

(* C6: for every page with more outbound links than the limit, _get_links  *)
(* returns exactly LINKS_PER_PAGE titles, whatever the titles are.         *)
C6_ExactlyLimit ==
    (pc = "got_links" /\ fault = "none" /\ Len(web[arg]) > LINKS_PER_PAGE)
        => result.type = "list" /\ Len(result.val) = LINKS_PER_PAGE

\* t has a separator character between other characters.
Technical(t) ==
    \E i, j, k \in 1..Len(t) :
        /\ i < j /\ j < k
        /\ t[i] \notin Separators /\ t[j] \in Separators /\ t[k] \notin Separators


(* C7: for every title with a separator character between other            *)
(* characters, _validate_page raises InvalidPageException, whatever links  *)
(* the provider returns for it.                                            *)
C7_TechnicalExcluded ==
    (pc = "validated" /\ fault = "none" /\ Technical(arg))
        => result = Escaped("InvalidPageException")

\* The fetch of the links did not return.
FetchRaised == fault \in {"unreachable", "malformed_body"}


C9_OnlyValidatedRows ==
    \A i \in 1..Len(store) :
        /\ Passes(store[i].title)
        /\ store[i].links # <<>>
        /\ store[i].links = Reported(store[i].title)

\* A search stored one candidate and skipped another, which failed validation.
C9_Witness ==
    /\ Answered /\ Passes(start) /\ Passes(finish) /\ result = ListResult(<<>>)
    /\ \E i \in 1..Len(Reported(start)) :
            /\ ~Passes(Reported(start)[i])
            /\ Matching(store, Reported(start)[i]) = {}
    /\ \E i \in 1..Len(Reported(start)) : Matching(store, Reported(start)[i]) # {}

\* A find_path call is under way.
Running == pc \notin {"idle", "done"}

\* The counts of the running call.
C10_Counted ==
    /\ ops.validations <= ops.lookups
    /\ ops.lookups <= LINKS_PER_PAGE
    /\ Running => /\ ops.lookups = pos
                  /\ pos <= Len(start_page_links)
                  /\ Len(start_page_links) <= LINKS_PER_PAGE


(* C10: every find_path call terminates; during a call the candidates      *)
(* looked up or validated are at most as many as start's link list is      *)
(* long, which is at most the limit; each candidate is processed once.     *)
C10_Terminates ==
    /\ []C10_Counted
    /\ [][(pc = "for" /\ pc' # "return") => pos' = pos + 1]_vars
    /\ Running ~> (pc = "done")

\* A call ended after it had looked up as many candidates as the limit allows.
C10_Witness ==
    /\ pc = "done" /\ result.type = "list"
    /\ ops.lookups = LINKS_PER_PAGE /\ ops.validations = LINKS_PER_PAGE

----------------------------------------------------------------------------
\* The rows of the table with title t.
Rows(t) == {i \in 1..Len(store) : store[i].title = t}

InStore(t) == Rows(t) # {}

(* C11: under sequential execution, whatever find_path calls were made     *)
(* from the empty table, the table holds at most one row of each title,    *)
(* also when a title is in the link lists of several start pages or twice  *)
(* in one link list.                                                       *)
C11_OneRowPerTitle == \A t \in Titles : Cardinality(Rows(t)) <= 1

\* A call went through a link list that has one title twice: the title got
\* its row at the first place and was found in the table at the second.
C11_Witness ==
    /\ Answered /\ Passes(start) /\ Passes(finish)
    /\ Len(Reported(start)) = 2
    /\ Reported(start)[1] = Reported(start)[2]
    /\ ops.lookups = 2 /\ ops.validations = 1 /\ ops.inserts = 1
    /\ Cardinality(Rows(Reported(start)[1])) = 1

\* The candidate the running call is at.
Candidate == start_page_links[pos]

\* The call is about to validate a candidate that does not pass, and the
\* provider answers its request.
RejectsCandidate ==
    /\ pc = "validate_link"
    /\ ~Passes(Candidate)
    /\ fault' = fault

\* Some candidate that does not pass validation stands before the first
\* one that leads to finish.
RejectedBeforeLeading ==
    /\ Passes(start) /\ Passes(finish)
    /\ Leading(start, finish) # {}
    /\ \E i \in 1..Least(Leading(start, finish)) - 1 : ~Passes(Reported(start)[i])

(* C12: when the validation of a candidate fails, find_path inserts no row *)
(* for it and does not end: it goes on with the loop, the candidate left   *)
(* behind; a later candidate that leads to finish is still found.          *)
C12_SkipsInvalidCandidate ==
    /\ [][RejectsCandidate =>
            /\ store' = store
            /\ pc' = "for"
            /\ result' = NoResult
            /\ UNCHANGED <<pos, start_page_links, path, path_found>>]_vars
    /\ [][(pc = "for" /\ pos < Len(start_page_links))
            => /\ pos' = pos + 1
               /\ pc' \in {"cached", "validate_link"}]_vars
    /\ []((Answered /\ RejectedBeforeLeading)
            => /\ result = ListResult(<<start,
                                Reported(start)[Least(Leading(start, finish))],
                                finish>>)
               /\ \A i \in 1..Least(Leading(start, finish)) - 1 :
                      ~Passes(Reported(start)[i]) => ~InStore(Reported(start)[i]))

\* A call skipped a candidate and returned the path through a later one.
C12_Witness ==
    /\ Answered /\ RejectedBeforeLeading
    /\ result.type = "list" /\ Len(result.val) = 3
    /\ ops.validations = 2 /\ ops.inserts = 1

(* C13: once a candidate whose link set has finish is found, find_path     *)
(* evaluates no further candidate: the next thing it does is return, with  *)
(* no lookup, no provider request and no insert in between, and the path   *)
(* has been spliced once: it is [start, candidate, finish], never longer.  *)
C13_StopsAtFirstFound ==
    /\ [](path_found => /\ pc = "return"
                        /\ path = <<start, Candidate, finish>>
                        /\ finish \in Range(Reported(Candidate)))
    /\ [][path_found => /\ pc' = "done"
                        /\ result' = ListResult(path)
                        /\ ops' = ops
                        /\ store' = store
                        /\ fault' = fault]_vars
    /\ [](Len(path) <= 3)

\* The search was stopped with candidates left, one of which leads to
\* finish too.
C13_Witness ==
    /\ path_found /\ pc = "return"
    /\ pos < Len(start_page_links)
    /\ finish \in Range(Reported(start_page_links[pos + 1]))
    /\ ops.lookups = 1

\* The loop is about to look up the candidate NextCandidate.
AtLookup == pc = "for" /\ pos < Len(start_page_links)

NextCandidate == start_page_links[pos + 1]

(* C14: for a candidate that is in the table find_path decides by the      *)
(* row's links alone: no links fetch, no backlinks fetch, no insert. For a *)
(* candidate that is not in the table there is exactly one links fetch,    *)
(* and one backlinks fetch and one insert only if validation succeeded.    *)
C14_CacheHitMakesNoRequest ==
    /\ [][(AtLookup /\ InStore(NextCandidate))
            => /\ pc' = "cached"
               /\ page_db_lookup'[1].title = NextCandidate
               /\ ops' = [ops EXCEPT !.lookups = @ + 1]
               /\ store' = store]_vars
    /\ [][pc = "cached"
            => /\ ops' = ops /\ store' = store /\ fault' = fault
               /\ pc' \in {"for", "return"}
               /\ path_found' = (finish \in Range(page_db_lookup[1].links))]_vars
    /\ [][(AtLookup /\ ~InStore(NextCandidate))
            => /\ pc' = "validate_link"
               /\ ops' = [ops EXCEPT !.lookups = @ + 1]
               /\ store' = store]_vars
    /\ [][pc = "validate_link"
            => /\ ops' = [ops EXCEPT !.validations = @ + 1]
               /\ store' = store
               /\ pc' \in {"for", "create", "done"}
               /\ pc' = "create" => Passes(Candidate)]_vars
    /\ [][pc = "create"
            => \/ /\ pc' = "fresh"
                  /\ ops' = [ops EXCEPT !.backlinks = @ + 1, !.inserts = @ + 1]
                  /\ Len(store') = Len(store) + 1
                  /\ store'[Len(store')].title = Candidate
               \/ /\ pc' = "done" /\ result'.type = "exc"
                  /\ ops' = [ops EXCEPT !.backlinks = @ + 1]
                  /\ store' = store]_vars
    /\ [][pc = "fresh"
            => /\ ops' = ops /\ store' = store /\ fault' = fault
               /\ pc' \in {"for", "return"}]_vars
    /\ [](/\ ops.inserts <= ops.backlinks
          /\ ops.backlinks <= ops.validations
          /\ ops.validations <= ops.lookups)

\* A call found its first candidate in the table and fetched the second.
C14_Witness ==
    /\ Answered
    /\ Len(Reported(start)) = 2
    /\ Reported(start)[1] # Reported(start)[2]
    /\ ops = [lookups |-> 2, validations |-> 1, backlinks |-> 1, inserts |-> 1]
    /\ Rows(Reported(start)[1]) = {1}
    /\ Rows(Reported(start)[2]) = {2}

\* The table has the candidate's row, with the links just fetched.
CandidateCommitted ==
    \E i \in Rows(Candidate) : store[i].links = page_links

(* C15: the row inserted for a candidate is in the table before find_path  *)
(* tests the candidate against finish and before it looks up the next one; *)
(* a row written by a call stays in the table however the call ends, found *)
(* or interrupted at a later candidate, so a later call's lookup finds it. *)
C15_CommittedBeforeTest ==
    /\ [](pc = "fresh" => CandidateCommitted)
    /\ [][ops'.inserts > ops.inserts
            => /\ pc = "create" /\ pc' = "fresh"
               /\ ops'.inserts = ops.inserts + 1
               /\ store' = Append(store, store'[Len(store')])
               /\ CandidateCommitted']_vars
    /\ [][pc' = "done" => \A t \in Titles : InStore(t) => InStore(t)']_vars
    /\ [][pc = "done" => \A t \in Titles : InStore(t) => InStore(t)']_vars
    /\ [](pc = "done" => Len(store) >= ops.inserts)

\* A call inserted the row of its first candidate and was interrupted by a
\* provider fault at the second: the row is in the table.
C15_Witness ==
    /\ pc = "done" /\ result.type = "exc"
    /\ ops.lookups = 2 /\ ops.inserts = 1
    /\ InStore(Reported(start)[1])

\* Every row of the table is in the next table, at its place and as it was.
RowsKept ==
    /\ Len(store') >= Len(store)
    /\ \A i \in 1..Len(store) : store'[i] = store[i]

(* C17: the table is append-only under find_path: a row keeps its title,   *)
(* links and backlinks and is never removed, however the calls made later  *)
(* end; a call that ends with the message of an invalid page has inserted  *)
(* nothing, so it leaves the table as a whole as it found it.              *)
C17_AppendOnly ==
    /\ [][RowsKept]_vars
    /\ [][store' # store => /\ Running
                            /\ ops'.inserts = ops.inserts + 1]_vars
    /\ []((pc = "done" /\ result.type = "str") => ops.inserts = 0)
    /\ [][(pc' = "done" /\ result'.type = "str") => store' = store]_vars

\* A call ended with the message of an invalid page on a table that has two
\* rows from earlier calls.
C17_Witness ==
    /\ pc = "done" /\ result.type = "str"
    /\ Len(store) = 2
    /\ store[1].title # store[2].title

\* What find_path(s, f) returns on the empty table, the provider answering
\* every request.
Outcome(s, f) ==
    IF ~Passes(s) THEN StrResult(Message(s))
    ELSE IF ~Passes(f) THEN StrResult(Message(f))
    ELSE IF Leading(s, f) = {} THEN ListResult(<<>>)
    ELSE ListResult(<<s, Reported(s)[Least(Leading(s, f))], f>>)

(* C19: with a provider whose answers do not change, what find_path(start, *)
(* finish) returns does not depend on the table: on every table that       *)
(* earlier sequential calls can have left it returns what it returns on    *)
(* the empty table.                                                        *)
C19_OutcomeIgnoresStore == Answered => result = Outcome(start, finish)

\* A call found both its candidates in the table and returned the empty
\* list.
C19_Witness ==
    /\ Answered /\ result = ListResult(<<>>)
    /\ ops.lookups = 2 /\ ops.validations = 0
    /\ Len(store) >= 2

\* start links to finish itself, and no title of its link list does.
DirectOnly ==
    /\ Passes(start) /\ Passes(finish)
    /\ finish \in Range(Reported(start))
    /\ Leading(start, finish) = {}

(* C20: what find_path returns is the message of an invalid page, the      *)
(* empty list, or a list [start, c, finish] with c in start's link list;   *)
(* never a list of two: when start links to finish but no title of its     *)
(* link list has finish in its link set, the empty list is returned.       *)
C20_ThreeOrNothing ==
    /\ (pc = "done" /\ result.type # "exc")
        => \/ result \in {StrResult(Message(start)), StrResult(Message(finish))}
           \/ result = ListResult(<<>>)
           \/ /\ result.type = "list"
              /\ Len(result.val) = 3
              /\ result.val[1] = start
              /\ result.val[3] = finish
              /\ result.val[2] \in Range(Reported(start))
    /\ (Answered /\ DirectOnly) => result = ListResult(<<>>)

\* A call whose start links to finish directly, and only so, returned the
\* empty list after it had looked at every candidate.
C20_Witness ==
    /\ Answered /\ DirectOnly
    /\ result = ListResult(<<>>)
    /\ ops.lookups = Len(Reported(start))

\* No page is twice among the children of a parent.
ChildOnce ==
    \A p \in Parents : \A i, j \in 1..Len(level_two_children[p]) :
        level_two_children[p][i] = level_two_children[p][j] => i = j

\* What the call child_call' = <<p, c>> did: nothing if c was a child of p,
\* else c was put after p's children; no other parent's children changed.
LastCallEffect ==
    LET p == child_call'[1]
        c == child_call'[2]
    IN  /\ c \in Range(level_two_children[p])
            => level_two_children'[p] = level_two_children[p]
        /\ c \notin Range(level_two_children[p])
            => level_two_children'[p] = Append(level_two_children[p], c)
        /\ \A q \in Parents \ {p} :
               level_two_children'[q] = level_two_children[q]

(* C18: add_child is idempotent: add_child(parent, child) called when      *)
(* child is a child of parent already leaves the parent's children as they *)
(* are; after any sequence of add_child calls each child is at most once   *)
(* among a parent's children; a call leaves other parents' children alone. *)
C18_AddChildIdempotent ==
    /\ []ChildOnce
    /\ [][LastCallEffect]_vars

\* The last call added a page that was a child of the parent already, and
\* the other parent has children too.
C18_Witness ==
    /\ child_call = <<1, 1>>
    /\ level_two_children[1] = <<1, 2>>
    /\ level_two_children[2] = <<3, 1>>

\* The candidate the second execution is at.
OtherCandidate == other.start_page_links[other.pos]

\* The step gives title t its second row.
Doubles(t) == Cardinality(Rows(t)) = 1 /\ Cardinality(Rows(t))' = 2

(* C16: when two find_path executions on one table interleave, both can    *)
(* miss on the lookup of one candidate and both insert it: a table with    *)
(* two rows of one title is reachable, nothing in the table forbids it. A  *)
(* title's second row is inserted by an execution whose lookup had missed, *)
(* and no title gets more rows than there are executions.                  *)
C16_DoubleInsertByRace ==
    /\ [](\A t \in Titles : Cardinality(Rows(t)) <= 2)
    /\ [][\A t \in Titles : Doubles(t) =>
            \/ /\ pc = "create" /\ pc' = "fresh"
               /\ Candidate = t /\ page_db_lookup = <<>>
            \/ /\ other.pc = "create" /\ other'.pc = "fresh"
               /\ OtherCandidate = t /\ other.page_db_lookup = <<>>]_vars

\* The table has two rows of one title, one from each execution.
C16_Witness ==
    /\ Len(store) = 2
    /\ store[1].title = store[2].title
    /\ store[1].id # store[2].id
    /\ ops.inserts = 1
    /\ other.pc = "fresh"

====
